---- MODULE Spec2Model ----
(***************************************************************************)
(* Model of rust/parser/literal.rs: the conversion of a value-literal      *)
(* concrete syntax tree (a pest Pair tree over the query text) into a     *)
(* typed Literal.                                                          *)
(*                                                                         *)
(* A CST node is a record [rule, start, end, children, path]: its rule     *)
(* kind, the byte range of the input it matched, its ordered children,     *)
(* and (ghost) its position in the tree, used only to name the node in     *)
(* the walk trace.  Node text is never stored in the node: as in pest,     *)
(* as_str is the slice of the input over the node's span.                  *)
(*                                                                         *)
(* Texts are sequences of one-character strings.  An Option is a sequence  *)
(* of length at most one: None == <<>>, Some(x) == <<x>>.                  *)
(***************************************************************************)
EXTENDS Integers, Sequences, FiniteSets, TLC

VARIABLES input, node, debug, pc, result

vars == <<input, node, debug, pc, result>>

(* Largest number of children enumerated under one composed node. *)
MaxKids == 4

None == <<>>
Some(x) == <<x>>

-----------------------------------------------------------------------------
(* Shapes: trees of rule kinds and leaf texts from which the CSTs fed to   *)
(* the visitor are laid out.  sep is the input text between the previous   *)
(* sibling (or the parent's start) and this node, such as the "-" of a     *)
(* date or the ":" of a time; it belongs to the parent's span only.        *)

Leaf(rule, sep, text) == [rule |-> rule, sep |-> sep, text |-> text, kids |-> <<>>]
Tree(rule, sep, kids) == [rule |-> rule, sep |-> sep, text |-> <<>>, kids |-> kids]

RECURSIVE TextOf(_), KidsText(_, _)
TextOf(s) == IF Len(s.kids) = 0 THEN s.text ELSE KidsText(s.kids, 1)
KidsText(kids, i) ==
    IF i > Len(kids) THEN <<>>
    ELSE kids[i].sep \o TextOf(kids[i]) \o KidsText(kids, i + 1)

RECURSIVE Layout(_, _, _), LayoutKids(_, _, _, _)
Layout(s, off, path) ==
    [rule |-> s.rule, start |-> off, end |-> off + Len(TextOf(s)),
     children |-> LayoutKids(s.kids, off, path, 1), path |-> path]
LayoutKids(kids, off, path, i) ==
    IF i > Len(kids) THEN <<>>
    ELSE LET n == Layout(kids[i], off + Len(kids[i].sep), Append(path, i))
         IN <<n>> \o LayoutKids(kids, n.end, path, i + 1)

MkCase(s) == [input |-> s.sep \o TextOf(s), root |-> Layout(s, Len(s.sep), <<>>)]

SeqsUpTo(S, n) == UNION {[1..k -> S] : k \in 0..n}

-----------------------------------------------------------------------------
(* The pest Pair operations the visitor uses on a node.                    *)

as_rule(n) == n.rule

span(n) == <<n.start, n.end>>

as_str(n) == SubSeq(input, n.start + 1, n.end)

to_owned(text) == text

(* Display of a Pair: rule(start, end, [children]); not the matched text.  *)
RECURSIVE to_string(_)
to_string(n) ==
    <<n.rule, n.start, n.end, [i \in 1..Len(n.children) |-> to_string(n.children[i])]>>

-----------------------------------------------------------------------------
(* Outcomes.  A visitor either returns a value, together with the ghost    *)
(* trace of the nodes it consumed from child cursors, or panics.           *)

NoVal == <<>>
NoErr == [kind |-> "none", input |-> <<>>]
NoNode == [rule |-> "none", start |-> 0, end |-> 0, children |-> <<>>, path |-> <<>>]

IllegalGrammar(n) == [kind |-> "IllegalGrammar", input |-> to_string(n)]
MissingChild == [kind |-> "IllegalGrammar", input |-> <<>>]
AssertionFailed == [kind |-> "AssertionFailed", input |-> <<>>]

Ok(val, trace) == [ok |-> TRUE, val |-> val, err |-> NoErr, trace |-> trace]
Err(e) == [ok |-> FALSE, val |-> NoVal, err |-> e, trace |-> <<>>]

NotCalled == Err([kind |-> "NotCalled", input |-> <<>>])

-----------------------------------------------------------------------------
(* The child cursor (IntoChildNodes, RuleMatcher): the children of a node  *)
(* and how many of them have been consumed.                                *)

into_children(n) == [kids |-> n.children, pos |-> 0]

HasNext(c) == c.pos < Len(c.kids)
Advance(c) == [c EXCEPT !.pos = c.pos + 1]
Took(n, c) == [ok |-> TRUE, node |-> n, cur |-> c, err |-> NoErr]
Failed(e, c) == [ok |-> FALSE, node |-> NoNode, cur |-> c, err |-> e]

(* take the next child unconditionally; fails when there is none *)
consume_any(c) ==
    IF HasNext(c) THEN Took(c.kids[c.pos + 1], Advance(c)) ELSE Failed(MissingChild, c)

(* take the next child, which must have the given rule kind *)
consume_expected(c, rule) ==
    IF ~HasNext(c) THEN Failed(MissingChild, c)
    ELSE IF c.kids[c.pos + 1].rule # rule THEN Failed(IllegalGrammar(c.kids[c.pos + 1]), Advance(c))
    ELSE Took(c.kids[c.pos + 1], Advance(c))

(* take the next child only if there is one and it has the given rule     *)
(* kind; otherwise leave the cursor where it is                            *)
try_consume_expected(c, rule) ==
    IF HasNext(c) /\ c.kids[c.pos + 1].rule = rule
    THEN Took(c.kids[c.pos + 1], Advance(c))
    ELSE Failed(NoErr, c)

(* take the next child only if there is one *)
try_consume_any(c) ==
    IF HasNext(c) THEN Took(c.kids[c.pos + 1], Advance(c)) ELSE Failed(NoErr, c)

(* the single child of a node; a node with no child or with more than one *)
(* is a structural precondition failure                                    *)
into_child(n) ==
    IF Len(n.children) = 1 THEN Took(n.children[1], Advance(into_children(n)))
    ELSE Failed(IllegalGrammar(n), into_children(n))

(* debug_assert_eq!(children.try_consume_any(), None): evaluated only in   *)
(* builds with debug assertions; compiled out otherwise.                   *)
NoResidual(c) == ~debug \/ ~try_consume_any(c).ok

(* debug_assert_eq!(node.as_rule(), Rule::X) *)
RuleAsserted(n, rule) == ~debug \/ as_rule(n) = rule

-----------------------------------------------------------------------------
(* The visitors, one operator per function of literal.rs.                  *)

(* visit_sign with the two arms of the match exchanged *)
visit_sign_swapped(n) ==
    IF ~RuleAsserted(n, "sign") THEN Err(AssertionFailed)
    ELSE LET child == into_child(n)
         IN IF ~child.ok THEN Err(child.err)
            ELSE IF as_rule(child.node) = "PLUS" THEN Ok("Minus", <<child.node.path>>)
            ELSE IF as_rule(child.node) = "MINUS" THEN Ok("Plus", <<child.node.path>>)
            ELSE Err(IllegalGrammar(child.node))

visit_sign(n) ==
    IF ~RuleAsserted(n, "sign") THEN Err(AssertionFailed)
    ELSE LET child == into_child(n)
         IN IF ~child.ok THEN Err(child.err)
            ELSE IF as_rule(child.node) = "PLUS" THEN Ok("Plus", <<child.node.path>>)
            ELSE IF as_rule(child.node) = "MINUS" THEN Ok("Minus", <<child.node.path>>)
            ELSE Err(IllegalGrammar(child.node))

visit_integer_literal(n) ==
    IF ~RuleAsserted(n, "integer_literal") THEN Err(AssertionFailed)
    ELSE Ok([value |-> to_owned(as_str(n))], <<>>)

(* visit_quoted_string_literal dropping the enclosing quote characters *)
visit_quoted_string_literal_unquoted(n) ==
    IF ~RuleAsserted(n, "quoted_string_literal") THEN Err(AssertionFailed)
    ELSE Ok([value |-> SubSeq(input, n.start + 2, n.end - 1)], <<>>)

visit_quoted_string_literal(n) ==
    IF ~RuleAsserted(n, "quoted_string_literal") THEN Err(AssertionFailed)
    ELSE Ok([value |-> to_owned(as_str(n))], <<>>)

visit_signed_integer(n) ==
    IF ~RuleAsserted(n, "signed_integer") THEN Err(AssertionFailed)
    ELSE
    LET children == into_children(n)
        first == consume_any(children)
    IN  IF ~first.ok THEN Err(first.err)
        ELSE IF as_rule(first.node) = "sign" THEN
            LET sign == visit_sign(first.node)
                second == consume_expected(first.cur, "integer_literal")
                integral == visit_integer_literal(second.node)
            IN  IF ~sign.ok THEN Err(sign.err)
                ELSE IF ~second.ok THEN Err(second.err)
                ELSE IF ~integral.ok THEN Err(integral.err)
                ELSE IF ~NoResidual(second.cur) THEN Err(AssertionFailed)
                ELSE Ok([sign |-> Some(sign.val), integral |-> integral.val.value],
                        <<first.node.path>> \o sign.trace \o <<second.node.path>>)
        ELSE IF as_rule(first.node) = "integer_literal" THEN
            LET integral == visit_integer_literal(first.node)
            IN  IF ~integral.ok THEN Err(integral.err)
                ELSE IF ~NoResidual(first.cur) THEN Err(AssertionFailed)
                ELSE Ok([sign |-> None, integral |-> integral.val.value],
                        <<first.node.path>>)
        ELSE Err(IllegalGrammar(first.node))

visit_signed_decimal(n) ==
    IF ~RuleAsserted(n, "signed_decimal") THEN Err(AssertionFailed)
    ELSE
    LET children == into_children(n)
        first == consume_any(children)
    IN  IF ~first.ok THEN Err(first.err)
        ELSE IF as_rule(first.node) = "sign" THEN
            LET sign == visit_sign(first.node)
                second == consume_expected(first.cur, "decimal_literal")
            IN  IF ~sign.ok THEN Err(sign.err)
                ELSE IF ~second.ok THEN Err(second.err)
                ELSE IF ~NoResidual(second.cur) THEN Err(AssertionFailed)
                ELSE Ok([sign |-> Some(sign.val), decimal |-> to_owned(as_str(second.node))],
                        <<first.node.path>> \o sign.trace \o <<second.node.path>>)
        ELSE IF as_rule(first.node) = "decimal_literal" THEN
            IF ~NoResidual(first.cur) THEN Err(AssertionFailed)
            ELSE Ok([sign |-> None, decimal |-> to_owned(as_str(first.node))],
                    <<first.node.path>>)
        ELSE Err(IllegalGrammar(first.node))

visit_date_fragment(n) ==
    IF ~RuleAsserted(n, "date_fragment") THEN Err(AssertionFailed)
    ELSE
    LET children == into_children(n)
        year == consume_expected(children, "year")
        month == consume_expected(year.cur, "month")
        day == consume_expected(month.cur, "day")
    IN  IF ~year.ok THEN Err(year.err)
        ELSE IF ~month.ok THEN Err(month.err)
        ELSE IF ~day.ok THEN Err(day.err)
        ELSE IF ~NoResidual(day.cur) THEN Err(AssertionFailed)
        ELSE Ok([year |-> to_owned(as_str(year.node)),
                 month |-> to_owned(as_str(month.node)),
                 day |-> to_owned(as_str(day.node))],
                <<year.node.path, month.node.path, day.node.path>>)

(* visit_time looking for a second_fraction only after a second *)
visit_time_fraction_needs_second(n) ==
    IF ~RuleAsserted(n, "time") THEN Err(AssertionFailed)
    ELSE
    LET children == into_children(n)
        hour == consume_expected(children, "hour")
        minute == consume_expected(hour.cur, "minute")
        second == try_consume_expected(minute.cur, "second")
        second_fraction == IF second.ok THEN try_consume_expected(second.cur, "second_fraction")
                           ELSE Failed(NoErr, second.cur)
    IN  IF ~hour.ok THEN Err(hour.err)
        ELSE IF ~minute.ok THEN Err(minute.err)
        ELSE IF ~NoResidual(second_fraction.cur) THEN Err(AssertionFailed)
        ELSE Ok([hour |-> to_owned(as_str(hour.node)),
                 minute |-> to_owned(as_str(minute.node)),
                 second |-> IF second.ok THEN Some(to_owned(as_str(second.node))) ELSE None,
                 second_fraction |-> IF second_fraction.ok
                                     THEN Some(to_owned(as_str(second_fraction.node)))
                                     ELSE None],
                <<hour.node.path, minute.node.path>>
                    \o (IF second.ok THEN <<second.node.path>> ELSE <<>>)
                    \o (IF second_fraction.ok THEN <<second_fraction.node.path>> ELSE <<>>))

visit_time(n) ==
    IF ~RuleAsserted(n, "time") THEN Err(AssertionFailed)
    ELSE
    LET children == into_children(n)
        hour == consume_expected(children, "hour")
        minute == consume_expected(hour.cur, "minute")
        second == try_consume_expected(minute.cur, "second")
        second_fraction == try_consume_expected(second.cur, "second_fraction")
    IN  IF ~hour.ok THEN Err(hour.err)
        ELSE IF ~minute.ok THEN Err(minute.err)
        ELSE IF ~NoResidual(second_fraction.cur) THEN Err(AssertionFailed)
        ELSE Ok([hour |-> to_owned(as_str(hour.node)),
                 minute |-> to_owned(as_str(minute.node)),
                 second |-> IF second.ok THEN Some(to_owned(as_str(second.node))) ELSE None,
                 second_fraction |-> IF second_fraction.ok
                                     THEN Some(to_owned(as_str(second_fraction.node)))
                                     ELSE None],
                <<hour.node.path, minute.node.path>>
                    \o (IF second.ok THEN <<second.node.path>> ELSE <<>>)
                    \o (IF second_fraction.ok THEN <<second_fraction.node.path>> ELSE <<>>))

(* visit_datetime_tz_literal with the two timezone tags exchanged *)
visit_datetime_tz_literal_tags_swapped(n) ==
    IF ~RuleAsserted(n, "datetime_tz_literal") THEN Err(AssertionFailed)
    ELSE
    LET children == into_children(n)
        dnode == consume_expected(children, "date_fragment")
        date == visit_date_fragment(dnode.node)
        tnode == consume_expected(dnode.cur, "time")
        time == visit_time(tnode.node)
        tz_node == consume_any(tnode.cur)
    IN  IF ~dnode.ok THEN Err(dnode.err)
        ELSE IF ~date.ok THEN Err(date.err)
        ELSE IF ~tnode.ok THEN Err(tnode.err)
        ELSE IF ~time.ok THEN Err(time.err)
        ELSE IF ~tz_node.ok THEN Err(tz_node.err)
        ELSE IF as_rule(tz_node.node) \notin {"iana_timezone", "iso8601_timezone_offset"}
             THEN Err(IllegalGrammar(tz_node.node))
        ELSE IF ~NoResidual(tz_node.cur) THEN Err(AssertionFailed)
        ELSE Ok([date |-> date.val, time |-> time.val,
                 timezone |-> IF as_rule(tz_node.node) = "iana_timezone"
                              THEN [tag |-> "ISO", text |-> to_owned(as_str(tz_node.node))]
                              ELSE [tag |-> "IANA", text |-> to_owned(as_str(tz_node.node))]],
                <<dnode.node.path>> \o date.trace \o <<tnode.node.path>> \o time.trace
                    \o <<tz_node.node.path>>)

visit_datetime_tz_literal(n) ==
    IF ~RuleAsserted(n, "datetime_tz_literal") THEN Err(AssertionFailed)
    ELSE
    LET children == into_children(n)
        dnode == consume_expected(children, "date_fragment")
        date == visit_date_fragment(dnode.node)
        tnode == consume_expected(dnode.cur, "time")
        time == visit_time(tnode.node)
        tz_node == consume_any(tnode.cur)
    IN  IF ~dnode.ok THEN Err(dnode.err)
        ELSE IF ~date.ok THEN Err(date.err)
        ELSE IF ~tnode.ok THEN Err(tnode.err)
        ELSE IF ~time.ok THEN Err(time.err)
        ELSE IF ~tz_node.ok THEN Err(tz_node.err)
        ELSE IF as_rule(tz_node.node) \notin {"iana_timezone", "iso8601_timezone_offset"}
             THEN Err(IllegalGrammar(tz_node.node))
        ELSE IF ~NoResidual(tz_node.cur) THEN Err(AssertionFailed)
        ELSE Ok([date |-> date.val, time |-> time.val,
                 timezone |-> IF as_rule(tz_node.node) = "iana_timezone"
                              THEN [tag |-> "IANA", text |-> to_owned(as_str(tz_node.node))]
                              ELSE [tag |-> "ISO", text |-> to_owned(as_str(tz_node.node))]],
                <<dnode.node.path>> \o date.trace \o <<tnode.node.path>> \o time.trace
                    \o <<tz_node.node.path>>)

(* visit_datetime_literal reading the time from a cursor that was not     *)
(* advanced past the date fragment                                         *)
visit_datetime_literal_stale_cursor(n) ==
    IF ~RuleAsserted(n, "datetime_literal") THEN Err(AssertionFailed)
    ELSE
    LET children == into_children(n)
        dnode == consume_expected(children, "date_fragment")
        date == visit_date_fragment(dnode.node)
        tnode == consume_any(children)
        time == visit_time(tnode.node)
    IN  IF ~dnode.ok THEN Err(dnode.err)
        ELSE IF ~date.ok THEN Err(date.err)
        ELSE IF ~tnode.ok THEN Err(tnode.err)
        ELSE IF ~time.ok THEN Err(time.err)
        ELSE IF ~NoResidual(tnode.cur) THEN Err(AssertionFailed)
        ELSE Ok([date |-> date.val, time |-> time.val],
                <<dnode.node.path>> \o date.trace \o <<tnode.node.path>> \o time.trace)

visit_datetime_literal(n) ==
    IF ~RuleAsserted(n, "datetime_literal") THEN Err(AssertionFailed)
    ELSE
    LET children == into_children(n)
        dnode == consume_expected(children, "date_fragment")
        date == visit_date_fragment(dnode.node)
        tnode == consume_expected(dnode.cur, "time")
        time == visit_time(tnode.node)
    IN  IF ~dnode.ok THEN Err(dnode.err)
        ELSE IF ~date.ok THEN Err(date.err)
        ELSE IF ~tnode.ok THEN Err(tnode.err)
        ELSE IF ~time.ok THEN Err(time.err)
        ELSE IF ~NoResidual(tnode.cur) THEN Err(AssertionFailed)
        ELSE Ok([date |-> date.val, time |-> time.val],
                <<dnode.node.path>> \o date.trace \o <<tnode.node.path>> \o time.trace)

visit_date_literal(n) ==
    IF ~RuleAsserted(n, "date_literal") THEN Err(AssertionFailed)
    ELSE
    LET child == into_child(n)
        date == visit_date_fragment(child.node)
    IN  IF ~child.ok THEN Err(child.err)
        ELSE IF ~date.ok THEN Err(date.err)
        ELSE Ok([date |-> date.val], <<child.node.path>> \o date.trace)

(* Literal::new(span, value_literal) *)
Literal(sp, value_literal) == [span |-> sp, value |-> value_literal]

(* The match of visit_value_literal: the variant tag and the visitor the   *)
(* child's rule kind selects.                                              *)
(* the match with the DateTimeTz and DateTime arms exchanged *)
VariantOf_swapped(rule) ==
    CASE rule = "quoted_string_literal" -> "String"
      [] rule = "boolean_literal" -> "Boolean"
      [] rule = "signed_integer" -> "Integer"
      [] rule = "signed_decimal" -> "Decimal"
      [] rule = "datetime_tz_literal" -> "DateTime"
      [] rule = "datetime_literal" -> "DateTimeTz"
      [] rule = "date_literal" -> "Date"
      [] OTHER -> "none"

VariantOf(rule) ==
    CASE rule = "quoted_string_literal" -> "String"
      [] rule = "boolean_literal" -> "Boolean"
      [] rule = "signed_integer" -> "Integer"
      [] rule = "signed_decimal" -> "Decimal"
      [] rule = "datetime_tz_literal" -> "DateTimeTz"
      [] rule = "datetime_literal" -> "DateTime"
      [] rule = "date_literal" -> "Date"
      [] OTHER -> "none"

VisitChild(child) ==
    CASE as_rule(child) = "quoted_string_literal" -> visit_quoted_string_literal(child)
      [] as_rule(child) = "boolean_literal" -> Ok([value |-> to_owned(as_str(child))], <<>>)
      [] as_rule(child) = "signed_integer" -> visit_signed_integer(child)
      [] as_rule(child) = "signed_decimal" -> visit_signed_decimal(child)
      [] as_rule(child) = "datetime_tz_literal" -> visit_datetime_tz_literal(child)
      [] as_rule(child) = "datetime_literal" -> visit_datetime_literal(child)
      [] as_rule(child) = "date_literal" -> visit_date_literal(child)
      [] OTHER -> Err(IllegalGrammar(child))

(* visit_value_literal taking the span after the child was taken, from    *)
(* the child                                                               *)
visit_value_literal_child_span(n) ==
    IF ~RuleAsserted(n, "value_literal") THEN Err(AssertionFailed)
    ELSE
    LET child == into_child(n)
        sp == span(child.node)
        inner == VisitChild(child.node)
    IN  IF ~child.ok THEN Err(child.err)
        ELSE IF ~inner.ok THEN Err(inner.err)
        ELSE Ok(Literal(sp, [tag |-> VariantOf(as_rule(child.node)), v |-> inner.val]),
                <<child.node.path>> \o inner.trace)

visit_value_literal(n) ==
    IF ~RuleAsserted(n, "value_literal") THEN Err(AssertionFailed)
    ELSE
    LET sp == span(n)
        child == into_child(n)
        inner == VisitChild(child.node)
    IN  IF ~child.ok THEN Err(child.err)
        ELSE IF ~inner.ok THEN Err(inner.err)
        ELSE Ok(Literal(sp, [tag |-> VariantOf(as_rule(child.node)), v |-> inner.val]),
                <<child.node.path>> \o inner.trace)

-----------------------------------------------------------------------------
(* The inputs: query texts with the CST a parser hands over for them, both *)
(* of the shape the grammar produces and not.                              *)

NoSep == <<>>

Plus == Tree("sign", NoSep, <<Leaf("PLUS", NoSep, <<"+">>)>>)
Minus == Tree("sign", NoSep, <<Leaf("MINUS", NoSep, <<"-">>)>>)
SignOther == Tree("sign", NoSep, <<Leaf("day", NoSep, <<"1">>)>>)
SignTwo == Tree("sign", NoSep, <<Leaf("PLUS", NoSep, <<"+">>), Leaf("MINUS", NoSep, <<"-">>)>>)

Int7 == Leaf("integer_literal", NoSep, <<"7">>)
Int007 == Leaf("integer_literal", NoSep, <<"0", "0", "7">>)
Dec314 == Leaf("decimal_literal", NoSep, <<"3", ".", "1", "4", "0", "0">>)
Dec05 == Leaf("decimal_literal", NoSep, <<"0", ".", "5">>)

Year == Leaf("year", NoSep, <<"2", "0", "2", "4">>)
Month == Leaf("month", <<"-">>, <<"0", "1">>)
Day == Leaf("day", <<"-">>, <<"1", "5">>)
Hour == Leaf("hour", NoSep, <<"1", "0">>)
Minute == Leaf("minute", <<":">>, <<"3", "0">>)
Second == Leaf("second", <<":">>, <<"0", "5">>)
SecondFraction == Leaf("second_fraction", <<".">>, <<"5", "0", "0">>)
Iana == Leaf("iana_timezone", <<" ">>, <<"U", "T", "C">>)
Iso == Leaf("iso8601_timezone_offset", NoSep, <<"+", "0", "1", "0", "0">>)

Quoted == Leaf("quoted_string_literal", NoSep, <<"\"", " ", "a", "\"">>)
True == Leaf("boolean_literal", NoSep, <<"t", "r", "u", "e">>)
False == Leaf("boolean_literal", NoSep, <<"f", "a", "l", "s", "e">>)

NumberPool == {Plus, Minus, SignOther, Int007, Dec314}
DatePool == {Year, Month, Day}
TimePool == {Hour, Minute, Second, SecondFraction}

SignedShapes ==
    {Tree(r, NoSep, k) : r \in {"signed_integer", "signed_decimal"},
                         k \in SeqsUpTo(NumberPool, MaxKids)}
        \cup {Tree("signed_integer", NoSep, k) : k \in {<<Int7>>, <<SignTwo, Int7>>, <<Minus, Int7>>}}
        \cup {Tree("signed_decimal", NoSep, k) : k \in {<<Dec05>>, <<SignTwo, Dec05>>, <<Plus, Dec05>>}}

DateFragments == {Tree("date_fragment", NoSep, k) : k \in SeqsUpTo(DatePool, MaxKids)}
DateGood == Tree("date_fragment", NoSep, <<Year, Month, Day>>)
DateShort == Tree("date_fragment", NoSep, <<Year, Month>>)
DateAsTime == Tree("time", NoSep, <<Year, Month, Day>>)

Times == {Tree("time", <<"T">>, k) : k \in SeqsUpTo(TimePool, MaxKids)}
TimeHM == Tree("time", <<"T">>, <<Hour, Minute>>)
TimeHMS == Tree("time", <<"T">>, <<Hour, Minute, Second>>)
TimeHMSF == Tree("time", <<"T">>, <<Hour, Minute, Second, SecondFraction>>)
TimeAsDate == Tree("date_fragment", <<"T">>, <<Hour, Minute>>)

DateLiterals ==
    {Tree("date_literal", NoSep, <<d>>) : d \in DateFragments \cup {DateAsTime, Year}}
        \cup {Tree("date_literal", NoSep, k) : k \in {<<>>, <<DateGood, TimeHM>>}}

DateTimePool == {DateGood, DateShort, TimeHM, TimeHMSF, Year}
DateTimes ==
    {Tree("datetime_literal", NoSep, k) : k \in SeqsUpTo(DateTimePool, MaxKids)}
        \cup {Tree("datetime_literal", NoSep, <<d, TimeHM>>) : d \in DateFragments \cup {DateAsTime}}
        \cup {Tree("datetime_literal", NoSep, <<DateGood, t>>) : t \in Times \cup {TimeAsDate}}

DateTimeTzPool == {DateGood, TimeHMS, Iana, Iso, Day}
DateTimeTzs ==
    {Tree("datetime_tz_literal", NoSep, k) : k \in SeqsUpTo(DateTimeTzPool, MaxKids)}
        \cup {Tree("datetime_tz_literal", NoSep, <<DateGood, t, z>>) : t \in Times, z \in {Iana, Iso}}
        \cup {Tree("datetime_tz_literal", NoSep, <<d, TimeHM, Iso>>) : d \in DateFragments}

Recognized == {Quoted, True, False} \cup SignedShapes \cup DateLiterals \cup DateTimes \cup DateTimeTzs
Unrecognized == {Int007, Dec314, Plus, Year, DateGood, TimeHM, Iana,
                 Tree("value_literal", NoSep, <<Quoted>>)}

(* the same nodes, further into the input and with the child strictly      *)
(* inside the literal's span                                               *)
Padded(s) == [s EXCEPT !.sep = <<" ">>]
Samples ==
    {Quoted, True,
     Tree("signed_integer", NoSep, <<Minus, Int007>>),
     Tree("signed_decimal", NoSep, <<Dec314>>),
     Tree("date_literal", NoSep, <<DateGood>>),
     Tree("datetime_literal", NoSep, <<DateGood, TimeHMS>>),
     Tree("datetime_tz_literal", NoSep, <<DateGood, TimeHM, Iana>>),
     Tree("datetime_tz_literal", NoSep, <<DateGood, TimeHMSF, Iso, Iana>>),
     Year}

Roots ==
    {Tree("value_literal", NoSep, <<c>>) : c \in Recognized \cup Unrecognized}
        \cup {Tree("value_literal", <<"=", " ">>, <<c>>) : c \in Samples}
        \cup {Tree("value_literal", <<"=">>, <<Padded(c)>>) : c \in Samples}
        \cup {Tree("value_literal", NoSep, k) : k \in {<<>>, <<Quoted, True>>, <<Int007, Int007>>}}
        \cup {Tree("signed_integer", NoSep, <<Int007>>), Tree("date_literal", NoSep, <<DateGood>>)}

Cases == {MkCase(s) : s \in Roots}

-----------------------------------------------------------------------------
(* One call of visit_value_literal on one node, in one build.              *)

Init ==
    /\ \E c \in Cases : input = c.input /\ node = c.root
    /\ debug \in BOOLEAN
    /\ pc = "ready"
    /\ result = NotCalled

Visit ==
    /\ pc = "ready"
    /\ result' = visit_value_literal(node)
    /\ pc' = IF result'.ok THEN "returned" ELSE "panicked"
    /\ UNCHANGED <<input, node, debug>>

Next == Visit

Spec == Init /\ [][Next]_vars

-----------------------------------------------------------------------------
(* Vocabulary of the properties, stated on the input and the CST alone.    *)

Called == pc # "ready"
IsValueLiteral == node.rule = "value_literal" /\ Len(node.children) = 1
Child == node.children[1]
Kinds(n) == [i \in 1..Len(n.children) |-> n.children[i].rule]
Slice(n) == SubSeq(input, n.start + 1, n.end)
Prefix(q, k) == SubSeq(q, 1, k)
LiteralValue == result.val.value

RecognizedKinds ==
    {"quoted_string_literal", "boolean_literal", "signed_integer", "signed_decimal",
     "datetime_tz_literal", "datetime_literal", "date_literal"}
DispatchTable ==
    {<<"quoted_string_literal", "String">>, <<"boolean_literal", "Boolean">>,
     <<"signed_integer", "Integer">>, <<"signed_decimal", "Decimal">>,
     <<"datetime_tz_literal", "DateTimeTz">>, <<"datetime_literal", "DateTime">>,
     <<"date_literal", "Date">>}

TimeForms ==
    {<<"hour", "minute">>, <<"hour", "minute", "second">>,
     <<"hour", "minute", "second_fraction">>,
     <<"hour", "minute", "second", "second_fraction">>}

WellFormedSign(n) == n.rule = "sign" /\ Kinds(n) \in {<<"PLUS">>, <<"MINUS">>}
WellFormedDate(n) == n.rule = "date_fragment" /\ Kinds(n) = <<"year", "month", "day">>
WellFormedTime(n) == n.rule = "time" /\ Kinds(n) \in TimeForms
MagnitudeKind(n) == IF n.rule = "signed_integer" THEN "integer_literal" ELSE "decimal_literal"
Magnitude(v, n) == IF n.rule = "signed_integer" THEN v.integral ELSE v.decimal

(* C1: visit_value_literal maps the rule kind of the single child to       *)
(* exactly the corresponding ValueLiteral variant (quoted_string_literal   *)
(* to String, boolean_literal to Boolean, signed_integer to Integer,       *)
(* signed_decimal to Decimal, datetime_tz_literal to DateTimeTz,           *)
(* datetime_literal to DateTime, date_literal to Date); for a child of any *)
(* other rule kind it raises IllegalGrammar carrying the rendering of the  *)
(* child and returns no Literal.                                           *)
C1_Dispatch ==
    Called /\ IsValueLiteral =>
        /\ result.ok => <<Child.rule, LiteralValue.tag>> \in DispatchTable
        /\ Child.rule \notin RecognizedKinds =>
              /\ ~result.ok
              /\ result.err = [kind |-> "IllegalGrammar", input |-> to_string(Child)]

C1_Witness ==
    /\ pc = "returned" /\ IsValueLiteral
    /\ Child.rule = "datetime_tz_literal"
    /\ LiteralValue.tag = "DateTimeTz"

(* C2: whenever visit_value_literal returns, the span of the Literal is    *)
(* the span of the value-literal node itself, not of its child or of a     *)
(* fragment of it.                                                         *)
C2_Span ==
    Called /\ result.ok => result.val.span = <<node.start, node.end>>

C2_Witness ==
    /\ pc = "returned" /\ IsValueLiteral
    /\ Child.rule = "datetime_tz_literal"
    /\ <<Child.start, Child.end>> # <<node.start, node.end>>
    /\ node.start > 0
    /\ result.val.span = <<node.start, node.end>>

(* C3: for a signed_integer (signed_decimal) node whose children are a     *)
(* sign and an integer_literal (decimal_literal), the sign of the result   *)
(* is Some(Plus) for a PLUS sign child and Some(Minus) for MINUS and the   *)
(* magnitude is the text of the second child; when the only child is the   *)
(* integer_literal (decimal_literal), the sign is None and the magnitude   *)
(* is the text of that child.                                              *)
C3_Sign ==
    Called /\ IsValueLiteral /\ Child.rule \in {"signed_integer", "signed_decimal"} =>
        /\ (Kinds(Child) = <<"sign", MagnitudeKind(Child)>> /\ WellFormedSign(Child.children[1])) =>
              /\ result.ok
              /\ LiteralValue.v.sign =
                    Some(IF Kinds(Child.children[1]) = <<"PLUS">> THEN "Plus" ELSE "Minus")
              /\ Magnitude(LiteralValue.v, Child) = Slice(Child.children[2])
        /\ Kinds(Child) = <<MagnitudeKind(Child)>> =>
              /\ result.ok
              /\ LiteralValue.v.sign = None
              /\ Magnitude(LiteralValue.v, Child) = Slice(Child.children[1])

C3_Witness ==
    /\ pc = "returned" /\ IsValueLiteral
    /\ Kinds(Child) = <<"sign", "integer_literal">>
    /\ Kinds(Child.children[1]) = <<"MINUS">>
    /\ LiteralValue.v = [sign |-> Some("Minus"), integral |-> <<"0", "0", "7">>]

(* C4: for a time node with children hour, minute, then optionally a       *)
(* second, then optionally a second_fraction, visit_time returns hour and  *)
(* minute from the first two children, and second (second_fraction) is     *)
(* Some(text) exactly when that child is present, each independently of    *)
(* the other.                                                              *)
TimeNodeReached ==
    /\ IsValueLiteral
    /\ \/ Child.rule = "datetime_literal" /\ Len(Child.children) = 2
       \/ /\ Child.rule = "datetime_tz_literal" /\ Len(Child.children) = 3
          /\ Child.children[3].rule \in {"iana_timezone", "iso8601_timezone_offset"}
    /\ WellFormedDate(Child.children[1])
    /\ WellFormedTime(Child.children[2])

C4_Time ==
    Called /\ TimeNodeReached =>
        LET t == Child.children[2]
            k == Kinds(t)
        IN  /\ result.ok
            /\ LiteralValue.v.time.hour = Slice(t.children[1])
            /\ LiteralValue.v.time.minute = Slice(t.children[2])
            /\ LiteralValue.v.time.second =
                  (IF Len(k) >= 3 /\ k[3] = "second" THEN Some(Slice(t.children[3])) ELSE None)
            /\ LiteralValue.v.time.second_fraction =
                  (IF k[Len(k)] = "second_fraction" THEN Some(Slice(t.children[Len(k)])) ELSE None)

C4_Witness ==
    /\ pc = "returned" /\ TimeNodeReached
    /\ Kinds(Child.children[2]) = <<"hour", "minute", "second_fraction">>
    /\ LiteralValue.v.time.second = None
    /\ LiteralValue.v.time.second_fraction = Some(<<"5", "0", "0">>)

(* C5: for a datetime_tz_literal node with children date_fragment, time    *)
(* and one more child, the timezone is IANA(text) iff the third child is   *)
(* an iana_timezone and ISO(text) iff it is an iso8601_timezone_offset,    *)
(* text being the matched text of that child; a third child of any other   *)
(* kind raises IllegalGrammar and yields neither.                          *)
TimezoneReached ==
    /\ IsValueLiteral
    /\ Child.rule = "datetime_tz_literal" /\ Len(Child.children) = 3
    /\ WellFormedDate(Child.children[1])
    /\ WellFormedTime(Child.children[2])

C5_Timezone ==
    Called /\ TimezoneReached =>
        LET z == Child.children[3]
        IN  /\ z.rule = "iana_timezone" =>
                  result.ok /\ LiteralValue.v.timezone = [tag |-> "IANA", text |-> Slice(z)]
            /\ z.rule = "iso8601_timezone_offset" =>
                  result.ok /\ LiteralValue.v.timezone = [tag |-> "ISO", text |-> Slice(z)]
            /\ z.rule \notin {"iana_timezone", "iso8601_timezone_offset"} =>
                  /\ ~result.ok
                  /\ result.err = [kind |-> "IllegalGrammar", input |-> to_string(z)]

C5_Witness ==
    /\ pc = "returned" /\ TimezoneReached
    /\ Child.children[3].rule = "iso8601_timezone_offset"
    /\ LiteralValue.v.timezone = [tag |-> "ISO", text |-> <<"+", "0", "1", "0", "0">>]

(* C6: every text-bearing field of a returned Literal is exactly the       *)
(* matched text of the CST node it was taken from: the slice of the input  *)
(* over that node's span, nothing added, removed, trimmed or reformatted.  *)
DateVerbatim(d, n) ==
    /\ Len(n.children) >= 3
    /\ d.year = Slice(n.children[1])
    /\ d.month = Slice(n.children[2])
    /\ d.day = Slice(n.children[3])

TimeVerbatim(t, n) ==
    /\ Len(n.children) >= 2
    /\ t.hour = Slice(n.children[1])
    /\ t.minute = Slice(n.children[2])
    /\ \/ t.second = None
       \/ /\ Len(n.children) >= 3 /\ n.children[3].rule = "second"
          /\ t.second = Some(Slice(n.children[3]))
    /\ \/ t.second_fraction = None
       \/ \E i \in 3..4 :
             /\ i <= Len(n.children) /\ n.children[i].rule = "second_fraction"
             /\ i = 4 => n.children[3].rule = "second"
             /\ t.second_fraction = Some(Slice(n.children[i]))

C6_Verbatim ==
    Called /\ IsValueLiteral /\ result.ok =>
        LET v == LiteralValue.v
            c == Child
            tag == LiteralValue.tag
        IN  /\ tag \in {"String", "Boolean"} => v.value = Slice(c)
            /\ tag \in {"Integer", "Decimal"} =>
                  Magnitude(v, c) = Slice(c.children[IF c.children[1].rule = "sign" THEN 2 ELSE 1])
            /\ tag = "Date" => DateVerbatim(v.date, c.children[1])
            /\ tag \in {"DateTime", "DateTimeTz"} =>
                  DateVerbatim(v.date, c.children[1]) /\ TimeVerbatim(v.time, c.children[2])
            /\ tag = "DateTimeTz" => v.timezone.text = Slice(c.children[3])

C6_Witness ==
    /\ pc = "returned" /\ IsValueLiteral
    /\ Child.rule = "quoted_string_literal"
    /\ node.start > 0
    /\ LiteralValue.v.value = <<"\"", " ", "a", "\"">>

-----------------------------------------------------------------------------
(* The fixed-arity composers the walk runs on a node, as pairs of the      *)
(* composer and the node it is run on.  The composer of the child is the   *)
(* one its rule kind selects; a date+time composer runs the date-fragment  *)
(* composer on a first child of kind date_fragment and then the time       *)
(* composer on a second child of kind time; the date-only visitor runs the *)
(* date-fragment composer on its single child.                             *)
ComposerKinds == {"signed_integer", "signed_decimal", "datetime_literal", "datetime_tz_literal"}
DateTimeKinds == {"datetime_literal", "datetime_tz_literal"}

Composers ==
    IF ~IsValueLiteral THEN {}
    ELSE (IF Child.rule \in ComposerKinds THEN {<<Child.rule, Child>>} ELSE {})
      \cup (IF Child.rule = "date_literal" /\ Len(Child.children) = 1
               /\ Child.children[1].rule = "date_fragment"
            THEN {<<"date_fragment", Child.children[1]>>} ELSE {})
      \cup (IF Child.rule \in DateTimeKinds /\ Len(Child.children) >= 1
               /\ Child.children[1].rule = "date_fragment"
            THEN {<<"date_fragment", Child.children[1]>>} ELSE {})
      \cup (IF Child.rule \in DateTimeKinds /\ Len(Child.children) >= 2
               /\ WellFormedDate(Child.children[1]) /\ Child.children[2].rule = "time"
            THEN {<<"time", Child.children[2]>>} ELSE {})

(* The required children of a composer, in grammar order. *)
Required(fn, n) ==
    CASE fn \in {"signed_integer", "signed_decimal"} ->
            IF Len(n.children) >= 1 /\ n.children[1].rule = "sign"
            THEN <<"sign", MagnitudeKind(n)>> ELSE <<MagnitudeKind(n)>>
      [] fn = "date_fragment" -> <<"year", "month", "day">>
      [] fn = "time" -> <<"hour", "minute">>
      [] fn = "datetime_literal" -> <<"date_fragment", "time">>
      [] fn = "datetime_tz_literal" -> <<"date_fragment", "time">>

HasRequired(fn, n) ==
    /\ Len(n.children) >= Len(Required(fn, n))
    /\ Prefix(Kinds(n), Len(Required(fn, n))) = Required(fn, n)

(* The number of children a composer consumes from a node whose leading    *)
(* children are as expected: the required ones and the optional ones that  *)
(* are present.                                                            *)
Expected(fn, n) ==
    LET k == Kinds(n)
        r == Len(Required(fn, n))
    IN  CASE fn = "time" ->
                LET s == IF Len(k) >= 3 /\ k[3] = "second" THEN 1 ELSE 0
                    f == IF Len(k) >= 3 + s /\ k[3 + s] = "second_fraction" THEN 1 ELSE 0
                IN  2 + s + f
          [] fn = "datetime_tz_literal" -> 3
          [] OTHER -> r

LeadingAsExpected(fn, n) ==
    /\ HasRequired(fn, n)
    /\ fn \in {"signed_integer", "signed_decimal"} /\ n.children[1].rule = "sign"
          => WellFormedSign(n.children[1])
    /\ fn = "datetime_tz_literal" =>
          /\ Len(n.children) >= 3
          /\ n.children[3].rule \in {"iana_timezone", "iso8601_timezone_offset"}

HasResidual(fn, n) == LeadingAsExpected(fn, n) /\ Len(n.children) > Expected(fn, n)

ResidualPresent == \E c \in Composers : HasResidual(c[1], c[2])

(* C8, as stated: in every fixed-arity composer a child left over after    *)
(* the expected children were consumed raises a fault, and no value built  *)
(* from the leading children is returned.                                  *)
C8_ResidualAlwaysFaults ==
    Called /\ ResidualPresent => ~result.ok

(* What the residual check does: it is a debug assertion, so a left-over   *)
(* child makes the call panic in a build with debug assertions enabled,    *)
(* and goes unnoticed in a build without them.                             *)
ResidualFaultsInDebug ==
    Called /\ debug /\ ResidualPresent => ~result.ok

(* The date fragment a returned Literal was built from. *)
HasDate == result.ok /\ IsValueLiteral /\ LiteralValue.tag \in {"Date", "DateTime", "DateTimeTz"}
DateNode == Child.children[1]

RequiredDefect == \E c \in Composers : ~HasRequired(c[1], c[2])

RequiredChildFaults ==
    Called /\ RequiredDefect =>
        /\ ~result.ok
        /\ ~ResidualPresent => result.err.kind = "IllegalGrammar"

(* C9, as stated: a date fragment is produced only from exactly the child  *)
(* sequence year, month, day, its fields taken in that order; a missing or *)
(* wrong-kind required child of a composer raises IllegalGrammar and no    *)
(* value is returned.                                                      *)
C9_ExactlyRequired ==
    /\ Called /\ HasDate =>
          /\ Kinds(DateNode) = <<"year", "month", "day">>
          /\ DateVerbatim(LiteralValue.v.date, DateNode)
    /\ RequiredChildFaults

(* What holds of the required children in every build: a date fragment is *)
(* produced only from a child sequence that begins with year, month, day   *)
(* (exactly that sequence only where debug assertions are enabled), and a  *)
(* missing or wrong-kind required child raises IllegalGrammar.             *)
RequiredInOrder ==
    /\ Called /\ HasDate =>
          /\ Len(DateNode.children) >= 3
          /\ Prefix(Kinds(DateNode), 3) = <<"year", "month", "day">>
          /\ debug => Len(DateNode.children) = 3
          /\ DateVerbatim(LiteralValue.v.date, DateNode)
    /\ RequiredChildFaults

-----------------------------------------------------------------------------
(* Subtrees of the shape the grammar produces, and the depth-first         *)
(* pre-order listing of the nodes below a node.                            *)

IsLeaf(n) == Len(n.children) = 0

Conforms ==
    /\ IsValueLiteral
    /\ LET c == Child
       IN CASE c.rule \in {"quoted_string_literal", "boolean_literal"} -> IsLeaf(c)
            [] c.rule \in {"signed_integer", "signed_decimal"} ->
                  \/ Kinds(c) = <<MagnitudeKind(c)>>
                  \/ Kinds(c) = <<"sign", MagnitudeKind(c)>> /\ WellFormedSign(c.children[1])
            [] c.rule = "date_literal" ->
                  Len(c.children) = 1 /\ WellFormedDate(c.children[1])
            [] c.rule = "datetime_literal" ->
                  /\ Kinds(c) = <<"date_fragment", "time">>
                  /\ WellFormedDate(c.children[1]) /\ WellFormedTime(c.children[2])
            [] c.rule = "datetime_tz_literal" ->
                  /\ Len(c.children) = 3
                  /\ WellFormedDate(c.children[1]) /\ WellFormedTime(c.children[2])
                  /\ c.children[3].rule \in {"iana_timezone", "iso8601_timezone_offset"}
            [] OTHER -> FALSE

RECURSIVE Below(_), BelowFrom(_, _)
Below(n) == BelowFrom(n.children, 1)
BelowFrom(kids, i) ==
    IF i > Len(kids) THEN <<>>
    ELSE <<kids[i].path>> \o Below(kids[i]) \o BelowFrom(kids, i + 1)

NoRepeat(q) == \A i, j \in 1..Len(q) : q[i] = q[j] => i = j

(* C10: one visit_value_literal call on a grammar-conforming subtree       *)
(* consumes every node below the value-literal node exactly once, in       *)
(* depth-first child order (a node is never taken again after a later      *)
(* sibling), and the call ends with a returned Literal.                    *)
C10_Walk ==
    Called /\ Conforms =>
        /\ pc = "returned" /\ result.ok
        /\ result.trace = Below(node)
        /\ NoRepeat(result.trace)

C10_Witness ==
    /\ pc = "returned" /\ Conforms
    /\ Child.rule = "datetime_tz_literal"
    /\ Kinds(Child.children[2]) = <<"hour", "minute", "second", "second_fraction">>
    /\ Len(result.trace) = 11

====
